---------------------------- MODULE Spec2Model ----------------------------
(***************************************************************************)
(* NestFanControl/main.py: the Cloud Run handler process_nest_event.       *)
(*                                                                         *)
(* One invocation is modelled as a sequence of steps: the synchronous part *)
(* of the handler up to its first outbound call (Receive), then one step   *)
(* per outbound call (three secret lookups, the token POST, the project-id *)
(* lookup, the command POST), each with every outcome the collaborator can *)
(* produce.  Text is a sequence of Unicode code points, bytes are 0..255,  *)
(* and JSON/Python values are records [t |-> tag, v |-> payload].          *)
(***************************************************************************)
EXTENDS Integers, Sequences, FiniteSets, TLC

\* ---- string literals of main.py, as sequences of code points ----
\* "message"
KEY_MESSAGE ==
    <<109, 101, 115, 115, 97, 103, 101>>
\* "data"
KEY_DATA ==
    <<100, 97, 116, 97>>
\* "resourceUpdate"
KEY_RESOURCE_UPDATE ==
    <<114, 101, 115, 111, 117, 114, 99, 101, 85, 112, 100, 97, 116, 101>>
\* "traits"
KEY_TRAITS ==
    <<116, 114, 97, 105, 116, 115>>
\* "sdm.devices.traits.ThermostatHvac"
TRAIT_HVAC ==
    <<115, 100, 109, 46, 100, 101, 118, 105, 99, 101, 115, 46, 116, 114, 97, 105, 116, 115,
    46, 84, 104, 101, 114, 109, 111, 115, 116, 97, 116, 72, 118, 97, 99>>
\* "sdm.devices.traits.Fan"
TRAIT_FAN ==
    <<115, 100, 109, 46, 100, 101, 118, 105, 99, 101, 115, 46, 116, 114, 97, 105, 116, 115,
    46, 70, 97, 110>>
\* "status"
KEY_STATUS ==
    <<115, 116, 97, 116, 117, 115>>
\* "OFF"
STATUS_OFF ==
    <<79, 70, 70>>
\* "access_token"
KEY_ACCESS_TOKEN ==
    <<97, 99, 99, 101, 115, 115, 95, 116, 111, 107, 101, 110>>
\* "None"
STR_NONE ==
    <<78, 111, 110, 101>>
\* "True"
STR_TRUE ==
    <<84, 114, 117, 101>>
\* "False"
STR_FALSE ==
    <<70, 97, 108, 115, 101>>

\* ---- event payload texts (the JSON a publisher puts in message.data) ----
\* {"resourceUpdate":{"traits":{"sdm.devices.traits.ThermostatHvac":{"status":"OFF"}}}}
P_OFF ==
    <<123, 34, 114, 101, 115, 111, 117, 114, 99, 101, 85, 112, 100, 97, 116, 101, 34, 58,
    123, 34, 116, 114, 97, 105, 116, 115, 34, 58, 123, 34, 115, 100, 109, 46, 100, 101, 118,
    105, 99, 101, 115, 46, 116, 114, 97, 105, 116, 115, 46, 84, 104, 101, 114, 109, 111,
    115, 116, 97, 116, 72, 118, 97, 99, 34, 58, 123, 34, 115, 116, 97, 116, 117, 115, 34,
    58, 34, 79, 70, 70, 34, 125, 125, 125, 125>>
\* {"resourceUpdate":{"traits":{"sdm.devices.traits.ThermostatHvac":{"status":"HEATING"}}}}
P_HEATING ==
    <<123, 34, 114, 101, 115, 111, 117, 114, 99, 101, 85, 112, 100, 97, 116, 101, 34, 58,
    123, 34, 116, 114, 97, 105, 116, 115, 34, 58, 123, 34, 115, 100, 109, 46, 100, 101, 118,
    105, 99, 101, 115, 46, 116, 114, 97, 105, 116, 115, 46, 84, 104, 101, 114, 109, 111,
    115, 116, 97, 116, 72, 118, 97, 99, 34, 58, 123, 34, 115, 116, 97, 116, 117, 115, 34,
    58, 34, 72, 69, 65, 84, 73, 78, 71, 34, 125, 125, 125, 125>>
\* {"resourceUpdate":{"traits":{"sdm.devices.traits.ThermostatHvac":{"status":"COOLING"}}}}
P_COOLING ==
    <<123, 34, 114, 101, 115, 111, 117, 114, 99, 101, 85, 112, 100, 97, 116, 101, 34, 58,
    123, 34, 116, 114, 97, 105, 116, 115, 34, 58, 123, 34, 115, 100, 109, 46, 100, 101, 118,
    105, 99, 101, 115, 46, 116, 114, 97, 105, 116, 115, 46, 84, 104, 101, 114, 109, 111,
    115, 116, 97, 116, 72, 118, 97, 99, 34, 58, 123, 34, 115, 116, 97, 116, 117, 115, 34,
    58, 34, 67, 79, 79, 76, 73, 78, 71, 34, 125, 125, 125, 125>>
\* {"resourceUpdate":{"traits":{"sdm.devices.traits.ThermostatHvac":{}}}}
P_NO_STATUS ==
    <<123, 34, 114, 101, 115, 111, 117, 114, 99, 101, 85, 112, 100, 97, 116, 101, 34, 58,
    123, 34, 116, 114, 97, 105, 116, 115, 34, 58, 123, 34, 115, 100, 109, 46, 100, 101, 118,
    105, 99, 101, 115, 46, 116, 114, 97, 105, 116, 115, 46, 84, 104, 101, 114, 109, 111,
    115, 116, 97, 116, 72, 118, 97, 99, 34, 58, 123, 125, 125, 125, 125>>
\* {"resourceUpdate":{"traits":{"sdm.devices.traits.ThermostatHvac":{"status":null}}}}
P_STATUS_NULL ==
    <<123, 34, 114, 101, 115, 111, 117, 114, 99, 101, 85, 112, 100, 97, 116, 101, 34, 58,
    123, 34, 116, 114, 97, 105, 116, 115, 34, 58, 123, 34, 115, 100, 109, 46, 100, 101, 118,
    105, 99, 101, 115, 46, 116, 114, 97, 105, 116, 115, 46, 84, 104, 101, 114, 109, 111,
    115, 116, 97, 116, 72, 118, 97, 99, 34, 58, 123, 34, 115, 116, 97, 116, 117, 115, 34,
    58, 110, 117, 108, 108, 125, 125, 125, 125>>
\* {"resourceUpdate":{"traits":{"sdm.devices.traits.Fan":{"timerMode":"ON"}}}}
P_FAN_ONLY ==
    <<123, 34, 114, 101, 115, 111, 117, 114, 99, 101, 85, 112, 100, 97, 116, 101, 34, 58,
    123, 34, 116, 114, 97, 105, 116, 115, 34, 58, 123, 34, 115, 100, 109, 46, 100, 101, 118,
    105, 99, 101, 115, 46, 116, 114, 97, 105, 116, 115, 46, 70, 97, 110, 34, 58, 123, 34,
    116, 105, 109, 101, 114, 77, 111, 100, 101, 34, 58, 34, 79, 78, 34, 125, 125, 125, 125>>
\* {"resourceUpdate":{"traits":{"sdm.devices.traits.Fan":{"timerMode":"OFF"},"sdm.devices.traits.ThermostatHvac":{"status":"OFF"}}}}
P_FAN_AND_OFF ==
    <<123, 34, 114, 101, 115, 111, 117, 114, 99, 101, 85, 112, 100, 97, 116, 101, 34, 58,
    123, 34, 116, 114, 97, 105, 116, 115, 34, 58, 123, 34, 115, 100, 109, 46, 100, 101, 118,
    105, 99, 101, 115, 46, 116, 114, 97, 105, 116, 115, 46, 70, 97, 110, 34, 58, 123, 34,
    116, 105, 109, 101, 114, 77, 111, 100, 101, 34, 58, 34, 79, 70, 70, 34, 125, 44, 34,
    115, 100, 109, 46, 100, 101, 118, 105, 99, 101, 115, 46, 116, 114, 97, 105, 116, 115,
    46, 84, 104, 101, 114, 109, 111, 115, 116, 97, 116, 72, 118, 97, 99, 34, 58, 123, 34,
    115, 116, 97, 116, 117, 115, 34, 58, 34, 79, 70, 70, 34, 125, 125, 125, 125>>
\* {"resourceUpdate":{"traits":{"sdm.devices.traits.Fan":{"timerMode":"OFF"},"sdm.devices.traits.ThermostatHvac":{"status":"HEATING"}}}}
P_FAN_AND_HEATING ==
    <<123, 34, 114, 101, 115, 111, 117, 114, 99, 101, 85, 112, 100, 97, 116, 101, 34, 58,
    123, 34, 116, 114, 97, 105, 116, 115, 34, 58, 123, 34, 115, 100, 109, 46, 100, 101, 118,
    105, 99, 101, 115, 46, 116, 114, 97, 105, 116, 115, 46, 70, 97, 110, 34, 58, 123, 34,
    116, 105, 109, 101, 114, 77, 111, 100, 101, 34, 58, 34, 79, 70, 70, 34, 125, 44, 34,
    115, 100, 109, 46, 100, 101, 118, 105, 99, 101, 115, 46, 116, 114, 97, 105, 116, 115,
    46, 84, 104, 101, 114, 109, 111, 115, 116, 97, 116, 72, 118, 97, 99, 34, 58, 123, 34,
    115, 116, 97, 116, 117, 115, 34, 58, 34, 72, 69, 65, 84, 73, 78, 71, 34, 125, 125, 125,
    125>>
\* {"resourceUpdate":{"traits":{}}}
P_NO_TRAIT ==
    <<123, 34, 114, 101, 115, 111, 117, 114, 99, 101, 85, 112, 100, 97, 116, 101, 34, 58,
    123, 34, 116, 114, 97, 105, 116, 115, 34, 58, 123, 125, 125, 125>>
\* {"resourceUpdate":{"traits":{"sdm.devices.traits.ThermostatHvac":null}}}
P_HVAC_NULL ==
    <<123, 34, 114, 101, 115, 111, 117, 114, 99, 101, 85, 112, 100, 97, 116, 101, 34, 58,
    123, 34, 116, 114, 97, 105, 116, 115, 34, 58, 123, 34, 115, 100, 109, 46, 100, 101, 118,
    105, 99, 101, 115, 46, 116, 114, 97, 105, 116, 115, 46, 84, 104, 101, 114, 109, 111,
    115, 116, 97, 116, 72, 118, 97, 99, 34, 58, 110, 117, 108, 108, 125, 125, 125>>
\* {"resourceUpdate":{}}
P_RU_NO_TRAITS ==
    <<123, 34, 114, 101, 115, 111, 117, 114, 99, 101, 85, 112, 100, 97, 116, 101, 34, 58,
    123, 125, 125>>
\* {"eventId":"e1"}
P_NO_RU ==
    <<123, 34, 101, 118, 101, 110, 116, 73, 100, 34, 58, 34, 101, 49, 34, 125>>
\* {}
P_EMPTY_OBJ ==
    <<123, 125>>
\* [1, 2]
P_LIST ==
    <<91, 49, 44, 32, 50, 93>>
\* "x"
P_STR ==
    <<34, 120, 34>>
\* "resourceUpdate"
P_STR_RU ==
    <<34, 114, 101, 115, 111, 117, 114, 99, 101, 85, 112, 100, 97, 116, 101, 34>>
\* 5
P_NUM ==
    <<53>>
\* null
P_NULL ==
    <<110, 117, 108, 108>>
\* true
P_TRUE ==
    <<116, 114, 117, 101>>
\* hello
P_NOT_JSON ==
    <<104, 101, 108, 108, 111>>
\* {"aGVsbG8":0}
P_B64_LOOKALIKE ==
    <<123, 34, 97, 71, 86, 115, 98, 71, 56, 34, 58, 48, 125>>

\* ---- the same payloads base64-encoded, as Pub/Sub delivers them ----
\* base64 of {"resourceUpdate":{"traits":{"sdm.devices.traits.ThermostatHvac":{"status":"OFF"}}}}
B64_OFF ==
    <<101, 121, 74, 121, 90, 88, 78, 118, 100, 88, 74, 106, 90, 86, 86, 119, 90, 71, 70, 48,
    90, 83, 73, 54, 101, 121, 74, 48, 99, 109, 70, 112, 100, 72, 77, 105, 79, 110, 115, 105,
    99, 50, 82, 116, 76, 109, 82, 108, 100, 109, 108, 106, 90, 88, 77, 117, 100, 72, 74,
    104, 97, 88, 82, 122, 76, 108, 82, 111, 90, 88, 74, 116, 98, 51, 78, 48, 89, 88, 82, 73,
    100, 109, 70, 106, 73, 106, 112, 55, 73, 110, 78, 48, 89, 88, 82, 49, 99, 121, 73, 54,
    73, 107, 57, 71, 82, 105, 74, 57, 102, 88, 49, 57>>
\* base64 of {"resourceUpdate":{"traits":{"sdm.devices.traits.ThermostatHvac":{"status":"HEATING"}}}}
B64_HEATING ==
    <<101, 121, 74, 121, 90, 88, 78, 118, 100, 88, 74, 106, 90, 86, 86, 119, 90, 71, 70, 48,
    90, 83, 73, 54, 101, 121, 74, 48, 99, 109, 70, 112, 100, 72, 77, 105, 79, 110, 115, 105,
    99, 50, 82, 116, 76, 109, 82, 108, 100, 109, 108, 106, 90, 88, 77, 117, 100, 72, 74,
    104, 97, 88, 82, 122, 76, 108, 82, 111, 90, 88, 74, 116, 98, 51, 78, 48, 89, 88, 82, 73,
    100, 109, 70, 106, 73, 106, 112, 55, 73, 110, 78, 48, 89, 88, 82, 49, 99, 121, 73, 54,
    73, 107, 104, 70, 81, 86, 82, 74, 84, 107, 99, 105, 102, 88, 49, 57, 102, 81, 61, 61>>
\* base64 of {"resourceUpdate":{"traits":{"sdm.devices.traits.ThermostatHvac":{"status":"COOLING"}}}}
B64_COOLING ==
    <<101, 121, 74, 121, 90, 88, 78, 118, 100, 88, 74, 106, 90, 86, 86, 119, 90, 71, 70, 48,
    90, 83, 73, 54, 101, 121, 74, 48, 99, 109, 70, 112, 100, 72, 77, 105, 79, 110, 115, 105,
    99, 50, 82, 116, 76, 109, 82, 108, 100, 109, 108, 106, 90, 88, 77, 117, 100, 72, 74,
    104, 97, 88, 82, 122, 76, 108, 82, 111, 90, 88, 74, 116, 98, 51, 78, 48, 89, 88, 82, 73,
    100, 109, 70, 106, 73, 106, 112, 55, 73, 110, 78, 48, 89, 88, 82, 49, 99, 121, 73, 54,
    73, 107, 78, 80, 84, 48, 120, 74, 84, 107, 99, 105, 102, 88, 49, 57, 102, 81, 61, 61>>
\* base64 of {"resourceUpdate":{"traits":{"sdm.devices.traits.ThermostatHvac":{}}}}
B64_NO_STATUS ==
    <<101, 121, 74, 121, 90, 88, 78, 118, 100, 88, 74, 106, 90, 86, 86, 119, 90, 71, 70, 48,
    90, 83, 73, 54, 101, 121, 74, 48, 99, 109, 70, 112, 100, 72, 77, 105, 79, 110, 115, 105,
    99, 50, 82, 116, 76, 109, 82, 108, 100, 109, 108, 106, 90, 88, 77, 117, 100, 72, 74,
    104, 97, 88, 82, 122, 76, 108, 82, 111, 90, 88, 74, 116, 98, 51, 78, 48, 89, 88, 82, 73,
    100, 109, 70, 106, 73, 106, 112, 55, 102, 88, 49, 57, 102, 81, 61, 61>>
\* base64 of {"resourceUpdate":{"traits":{"sdm.devices.traits.ThermostatHvac":{"status":null}}}}
B64_STATUS_NULL ==
    <<101, 121, 74, 121, 90, 88, 78, 118, 100, 88, 74, 106, 90, 86, 86, 119, 90, 71, 70, 48,
    90, 83, 73, 54, 101, 121, 74, 48, 99, 109, 70, 112, 100, 72, 77, 105, 79, 110, 115, 105,
    99, 50, 82, 116, 76, 109, 82, 108, 100, 109, 108, 106, 90, 88, 77, 117, 100, 72, 74,
    104, 97, 88, 82, 122, 76, 108, 82, 111, 90, 88, 74, 116, 98, 51, 78, 48, 89, 88, 82, 73,
    100, 109, 70, 106, 73, 106, 112, 55, 73, 110, 78, 48, 89, 88, 82, 49, 99, 121, 73, 54,
    98, 110, 86, 115, 98, 72, 49, 57, 102, 88, 48, 61>>
\* base64 of {"resourceUpdate":{"traits":{"sdm.devices.traits.Fan":{"timerMode":"ON"}}}}
B64_FAN_ONLY ==
    <<101, 121, 74, 121, 90, 88, 78, 118, 100, 88, 74, 106, 90, 86, 86, 119, 90, 71, 70, 48,
    90, 83, 73, 54, 101, 121, 74, 48, 99, 109, 70, 112, 100, 72, 77, 105, 79, 110, 115, 105,
    99, 50, 82, 116, 76, 109, 82, 108, 100, 109, 108, 106, 90, 88, 77, 117, 100, 72, 74,
    104, 97, 88, 82, 122, 76, 107, 90, 104, 98, 105, 73, 54, 101, 121, 74, 48, 97, 87, 49,
    108, 99, 107, 49, 118, 90, 71, 85, 105, 79, 105, 74, 80, 84, 105, 74, 57, 102, 88, 49,
    57>>
\* base64 of {"resourceUpdate":{"traits":{"sdm.devices.traits.Fan":{"timerMode":"OFF"},"sdm.devices.traits.ThermostatHvac":{"status":"OFF"}}}}
B64_FAN_AND_OFF ==
    <<101, 121, 74, 121, 90, 88, 78, 118, 100, 88, 74, 106, 90, 86, 86, 119, 90, 71, 70, 48,
    90, 83, 73, 54, 101, 121, 74, 48, 99, 109, 70, 112, 100, 72, 77, 105, 79, 110, 115, 105,
    99, 50, 82, 116, 76, 109, 82, 108, 100, 109, 108, 106, 90, 88, 77, 117, 100, 72, 74,
    104, 97, 88, 82, 122, 76, 107, 90, 104, 98, 105, 73, 54, 101, 121, 74, 48, 97, 87, 49,
    108, 99, 107, 49, 118, 90, 71, 85, 105, 79, 105, 74, 80, 82, 107, 89, 105, 102, 83, 119,
    105, 99, 50, 82, 116, 76, 109, 82, 108, 100, 109, 108, 106, 90, 88, 77, 117, 100, 72,
    74, 104, 97, 88, 82, 122, 76, 108, 82, 111, 90, 88, 74, 116, 98, 51, 78, 48, 89, 88, 82,
    73, 100, 109, 70, 106, 73, 106, 112, 55, 73, 110, 78, 48, 89, 88, 82, 49, 99, 121, 73,
    54, 73, 107, 57, 71, 82, 105, 74, 57, 102, 88, 49, 57>>
\* base64 of {"resourceUpdate":{"traits":{"sdm.devices.traits.Fan":{"timerMode":"OFF"},"sdm.devices.traits.ThermostatHvac":{"status":"HEATING"}}}}
B64_FAN_AND_HEATING ==
    <<101, 121, 74, 121, 90, 88, 78, 118, 100, 88, 74, 106, 90, 86, 86, 119, 90, 71, 70, 48,
    90, 83, 73, 54, 101, 121, 74, 48, 99, 109, 70, 112, 100, 72, 77, 105, 79, 110, 115, 105,
    99, 50, 82, 116, 76, 109, 82, 108, 100, 109, 108, 106, 90, 88, 77, 117, 100, 72, 74,
    104, 97, 88, 82, 122, 76, 107, 90, 104, 98, 105, 73, 54, 101, 121, 74, 48, 97, 87, 49,
    108, 99, 107, 49, 118, 90, 71, 85, 105, 79, 105, 74, 80, 82, 107, 89, 105, 102, 83, 119,
    105, 99, 50, 82, 116, 76, 109, 82, 108, 100, 109, 108, 106, 90, 88, 77, 117, 100, 72,
    74, 104, 97, 88, 82, 122, 76, 108, 82, 111, 90, 88, 74, 116, 98, 51, 78, 48, 89, 88, 82,
    73, 100, 109, 70, 106, 73, 106, 112, 55, 73, 110, 78, 48, 89, 88, 82, 49, 99, 121, 73,
    54, 73, 107, 104, 70, 81, 86, 82, 74, 84, 107, 99, 105, 102, 88, 49, 57, 102, 81, 61,
    61>>
\* base64 of {"resourceUpdate":{"traits":{}}}
B64_NO_TRAIT ==
    <<101, 121, 74, 121, 90, 88, 78, 118, 100, 88, 74, 106, 90, 86, 86, 119, 90, 71, 70, 48,
    90, 83, 73, 54, 101, 121, 74, 48, 99, 109, 70, 112, 100, 72, 77, 105, 79, 110, 116, 57,
    102, 88, 48, 61>>
\* base64 of {"resourceUpdate":{"traits":{"sdm.devices.traits.ThermostatHvac":null}}}
B64_HVAC_NULL ==
    <<101, 121, 74, 121, 90, 88, 78, 118, 100, 88, 74, 106, 90, 86, 86, 119, 90, 71, 70, 48,
    90, 83, 73, 54, 101, 121, 74, 48, 99, 109, 70, 112, 100, 72, 77, 105, 79, 110, 115, 105,
    99, 50, 82, 116, 76, 109, 82, 108, 100, 109, 108, 106, 90, 88, 77, 117, 100, 72, 74,
    104, 97, 88, 82, 122, 76, 108, 82, 111, 90, 88, 74, 116, 98, 51, 78, 48, 89, 88, 82, 73,
    100, 109, 70, 106, 73, 106, 112, 117, 100, 87, 120, 115, 102, 88, 49, 57>>
\* base64 of {"resourceUpdate":{}}
B64_RU_NO_TRAITS ==
    <<101, 121, 74, 121, 90, 88, 78, 118, 100, 88, 74, 106, 90, 86, 86, 119, 90, 71, 70, 48,
    90, 83, 73, 54, 101, 51, 49, 57>>
\* base64 of {"eventId":"e1"}
B64_NO_RU ==
    <<101, 121, 74, 108, 100, 109, 86, 117, 100, 69, 108, 107, 73, 106, 111, 105, 90, 84,
    69, 105, 102, 81, 61, 61>>
\* base64 of {}
B64_EMPTY_OBJ ==
    <<101, 51, 48, 61>>
\* base64 of [1, 2]
B64_LIST ==
    <<87, 122, 69, 115, 73, 68, 74, 100>>
\* base64 of "x"
B64_STR ==
    <<73, 110, 103, 105>>
\* base64 of "resourceUpdate"
B64_STR_RU ==
    <<73, 110, 74, 108, 99, 50, 57, 49, 99, 109, 78, 108, 86, 88, 66, 107, 89, 88, 82, 108,
    73, 103, 61, 61>>
\* base64 of 5
B64_NUM ==
    <<78, 81, 61, 61>>
\* base64 of null
B64_NULL ==
    <<98, 110, 86, 115, 98, 65, 61, 61>>
\* base64 of true
B64_TRUE ==
    <<100, 72, 74, 49, 90, 81, 61, 61>>
\* base64 of hello
B64_NOT_JSON ==
    <<97, 71, 86, 115, 98, 71, 56, 61>>
\* base64 of {"aGVsbG8":0}
B64_B64_LOOKALIKE ==
    <<101, 121, 74, 104, 82, 49, 90, 122, 89, 107, 99, 52, 73, 106, 111, 119, 102, 81, 61,
    61>>
\* base64 of the bytes FF FE (not UTF-8): //4=
B64_BAD_UTF8 ==
    <<47, 47, 52, 61>>
\* e30: base64 of {} with its padding dropped
B64_UNPADDED ==
    <<101, 51, 48>>

\* ---- HTTP response bodies ----
\* {"access_token":"t1","expires_in":3599}
BODY_TOKEN ==
    <<123, 34, 97, 99, 99, 101, 115, 115, 95, 116, 111, 107, 101, 110, 34, 58, 34, 116, 49,
    34, 44, 34, 101, 120, 112, 105, 114, 101, 115, 95, 105, 110, 34, 58, 51, 53, 57, 57,
    125>>
\* {"error":"invalid_grant"}
BODY_NO_TOKEN ==
    <<123, 34, 101, 114, 114, 111, 114, 34, 58, 34, 105, 110, 118, 97, 108, 105, 100, 95,
    103, 114, 97, 110, 116, 34, 125>>
\* {}
BODY_EMPTY_OBJ ==
    <<123, 125>>
\* []
BODY_LIST ==
    <<91, 93>>
\* OK
BODY_TEXT ==
    <<79, 75>>
BODY_EMPTY == <<>>

(***************************************************************************)
(* Python / JSON values.                                                   *)
(***************************************************************************)
JNull == [t |-> "null", v |-> 0]
JBool(b) == [t |-> "bool", v |-> b]
\* a number keeps its lexeme (code points), e.g. <<53>> for 5
JNum(lexeme) == [t |-> "num", v |-> lexeme]
JStr(text) == [t |-> "str", v |-> text]
JList(items) == [t |-> "list", v |-> items]
\* a dict is a function from key text to value
JObj(f) == [t |-> "obj", v |-> f]
EmptyDict == JObj(<<>>)
Dict1(k, x) == JObj(k :> x)

\* Result of an expression that may raise.
Raise(e) == [exc |-> e, val |-> JNull]
Return(x) == [exc |-> "", val |-> x]

IsDigit(c) == c \in 48..57

\* bool(x): Python truthiness ("if not envelope").
PyTruthy(x) ==
    CASE x.t = "null" -> FALSE
      [] x.t = "bool" -> x.v
      [] x.t = "num"  -> \E i \in 1..Len(x.v) :
                            /\ x.v[i] \in 49..57 \/ x.v[i] \in {78, 73}
                            /\ \A j \in 1..i : x.v[j] \notin {101, 69}
      [] x.t = "str"  -> Len(x.v) > 0
      [] x.t = "list" -> Len(x.v) > 0
      [] x.t = "obj"  -> DOMAIN x.v # {}

IsSubstring(k, s) ==
    \E i \in 0..(Len(s) - Len(k)) : SubSeq(s, i + 1, i + Len(k)) = k

\* `k in x` for a str k: dict key, list element, substring; TypeError otherwise.
PyContains(k, x) ==
    CASE x.t = "obj"  -> Return(JBool(k \in DOMAIN x.v))
      [] x.t = "list" -> Return(JBool(\E i \in 1..Len(x.v) : x.v[i] = JStr(k)))
      [] x.t = "str"  -> Return(JBool(IsSubstring(k, x.v)))
      [] OTHER        -> Raise("TypeError")

\* `x[k]` for a str k.
PyGetItem(x, k) ==
    CASE x.t = "obj" -> IF k \in DOMAIN x.v THEN Return(x.v[k]) ELSE Raise("KeyError")
      [] OTHER       -> Raise("TypeError")

\* `x.get(k)`: only dicts have .get; a missing key gives None.
PyDictGet(x, k) ==
    CASE x.t = "obj" -> IF k \in DOMAIN x.v THEN Return(x.v[k]) ELSE Return(JNull)
      [] OTHER       -> Raise("AttributeError")

\* str(x) for the non-str values message.data can hold (line 82).  Floats and
\* non-empty containers are not among the modelled inputs.
PyStr(x) ==
    CASE x.t = "str"  -> x.v
      [] x.t = "null" -> STR_NONE
      [] x.t = "bool" -> IF x.v THEN STR_TRUE ELSE STR_FALSE
      [] x.t = "num" /\ \A i \in 1..Len(x.v) : IsDigit(x.v[i]) -> x.v
      [] x.t = "list" /\ Len(x.v) = 0 -> <<91, 93>>
      [] x.t = "obj" /\ DOMAIN x.v = {} -> <<123, 125>>

(***************************************************************************)
(* base64.b64decode(s) with validate=False, as binascii.a2b_base64 does it *)
(* in non-strict mode: characters outside the alphabet are skipped, '='    *)
(* ends the input once a quad is complete with it, and leftover sextets    *)
(* raise binascii.Error.                                                   *)
(***************************************************************************)
B64Value(c) ==
    CASE c \in 65..90  -> c - 65
      [] c \in 97..122 -> c - 71
      [] c \in 48..57  -> c + 4
      [] c = 43        -> 62
      [] c = 47        -> 63
      [] OTHER         -> 64

IsB64Char(c) == B64Value(c) < 64

\* The scan of a2b_base64 over s, in closed form.  quad_pos at index i is the
\* number of alphabet characters before i, modulo 4; pads counts the '=' seen
\* since the last alphabet character; the scan ends at the first '=' that
\* completes a quad (quad_pos >= 2 and quad_pos + pads >= 4).
B64QuadPos(s, i) == Cardinality({j \in 1..(i - 1) : IsB64Char(s[j])}) % 4

B64Pads(s, i) ==
    Cardinality({j \in 1..i : s[j] = 61 /\ \A k \in j..i : ~IsB64Char(s[k])})

B64EndsAt(s, i) ==
    s[i] = 61 /\ B64QuadPos(s, i) >= 2 /\ B64QuadPos(s, i) + B64Pads(s, i) >= 4

\* the least element of a non-empty set of indices, or otherwise
Least(S, otherwise) ==
    IF S = {} THEN otherwise ELSE CHOOSE i \in S : \A j \in S : i <= j

\* index of the '=' that ends the scan, Len(s) + 1 if none does
B64Stop(s) == Least({i \in 1..Len(s) : B64EndsAt(s, i)}, Len(s) + 1)

SextetsOf(chars) == [i \in 1..Len(chars) |-> B64Value(chars[i])] \o <<>>

\* the sextets of the alphabet characters before stop
B64Sextets(s, stop) == SextetsOf(SelectSeq(SubSeq(s, 1, stop - 1), IsB64Char))

\* byte k out of the sextets d
B64Byte(d, k) ==
    LET q == 4 * ((k - 1) \div 3) IN
    CASE (k - 1) % 3 = 0 -> d[q + 1] * 4 + d[q + 2] \div 16
      [] (k - 1) % 3 = 1 -> (d[q + 2] % 16) * 16 + d[q + 3] \div 4
      [] (k - 1) % 3 = 2 -> (d[q + 3] % 4) * 64 + d[q + 4]

\* n bytes out of the sextets d (\o <<>> makes the function a sequence value)
B64Take(d, n) == [k \in 1..n |-> B64Byte(d, k)] \o <<>>

\* Leftover sextets raise unless a pad ended the scan; then the one or two
\* bytes they complete are kept.
B64Bytes(d, padded) ==
    IF ~padded /\ Len(d) % 4 # 0
    THEN Raise("binascii.Error")
    ELSE Return(B64Take(d, 3 * (Len(d) \div 4)
                              + (IF Len(d) % 4 >= 2 THEN (Len(d) % 4) - 1 ELSE 0)))

A2bBase64Upto(s, stop) == B64Bytes(B64Sextets(s, stop), stop <= Len(s))

A2bBase64(s) == A2bBase64Upto(s, B64Stop(s))

\* b64decode of a Python value: only an ASCII str (or bytes) is accepted.
B64Decode(x) ==
    IF x.t # "str" THEN Raise("TypeError")
    ELSE IF \E i \in 1..Len(x.v) : x.v[i] > 127 THEN Raise("ValueError")
    ELSE A2bBase64(x.v)

(***************************************************************************)
(* bytes.decode("utf-8"), strict.                                          *)
(***************************************************************************)
IsCont(b, i) == i <= Len(b) /\ b[i] \in 128..191

\* index of the first byte >= 128 from i on, Len(b) + 1 if there is none
NextHigh(b, i) == Least({j \in i..Len(b) : b[j] >= 128}, Len(b) + 1)

RECURSIVE Utf8Decode(_, _, _)
RECURSIVE Utf8Run(_, _, _, _)

\* a run of ASCII bytes i..j-1 is copied as it is
Utf8Run(b, i, j, out) == Utf8Decode(b, j, out \o SubSeq(b, i, j - 1))

Utf8Decode(b, i, out) ==
    IF i > Len(b) THEN Return(out)
    ELSE CASE b[i] < 128 -> Utf8Run(b, i, NextHigh(b, i), out)
           [] b[i] \in 194..223 /\ IsCont(b, i + 1) ->
                Utf8Decode(b, i + 2, Append(out, (b[i] - 192) * 64 + (b[i + 1] - 128)))
           [] /\ b[i] \in 224..239
              /\ IsCont(b, i + 1) /\ IsCont(b, i + 2)
              /\ (b[i] = 224 => b[i + 1] >= 160)
              /\ (b[i] = 237 => b[i + 1] <= 159) ->
                Utf8Decode(b, i + 3, Append(out,
                    (b[i] - 224) * 4096 + (b[i + 1] - 128) * 64 + (b[i + 2] - 128)))
           [] /\ b[i] \in 240..244
              /\ IsCont(b, i + 1) /\ IsCont(b, i + 2) /\ IsCont(b, i + 3)
              /\ (b[i] = 240 => b[i + 1] >= 144)
              /\ (b[i] = 244 => b[i + 1] <= 143) ->
                Utf8Decode(b, i + 4, Append(out,
                    (b[i] - 240) * 262144 + (b[i + 1] - 128) * 4096
                    + (b[i + 2] - 128) * 64 + (b[i + 3] - 128)))
           [] OTHER -> Raise("UnicodeDecodeError")

(***************************************************************************)
(* json.loads(text): the standard decoder.  A scan returns [ok, val, pos]  *)
(* with pos the index after the value.                                     *)
(***************************************************************************)
Fail == [ok |-> FALSE, val |-> JNull, pos |-> 0]
Ok(x, p) == [ok |-> TRUE, val |-> x, pos |-> p]

At(s, i, c) == i <= Len(s) /\ s[i] = c
HasPrefix(s, i, lit) ==
    i + Len(lit) - 1 <= Len(s) /\ SubSeq(s, i, i + Len(lit) - 1) = lit

RECURSIVE SkipWs(_, _)
SkipWs(s, i) ==
    IF i <= Len(s) /\ s[i] \in {32, 9, 10, 13} THEN SkipWs(s, i + 1) ELSE i

RECURSIVE ScanDigits(_, _)
ScanDigits(s, i) == IF i <= Len(s) /\ IsDigit(s[i]) THEN ScanDigits(s, i + 1) ELSE i

HexValue(c) ==
    CASE c \in 48..57  -> c - 48
      [] c \in 65..70  -> c - 55
      [] c \in 97..102 -> c - 87
      [] OTHER         -> 16

\* the character a one-letter escape stands for: " \ / b f n r t
Unescape(c) ==
    CASE c = 98  -> 8
      [] c = 102 -> 12
      [] c = 110 -> 10
      [] c = 114 -> 13
      [] c = 116 -> 9
      [] OTHER   -> c

\* index of the first quote, backslash or control character from i on
NextSpecial(s, i) ==
    Least({j \in i..Len(s) : s[j] \in {34, 92} \/ s[j] < 32}, Len(s) + 1)

RECURSIVE ScanString(_, _, _)
RECURSIVE ScanPlain(_, _, _, _)

\* a run of plain characters i..j-1 is copied as it is
ScanPlain(s, i, j, acc) == ScanString(s, j, acc \o SubSeq(s, i, j - 1))

\* py_scanstring; i is the index after the opening quote.
ScanString(s, i, acc) ==
    IF i > Len(s) THEN Fail
    ELSE IF s[i] = 34 THEN Ok(JStr(acc), i + 1)
    ELSE IF s[i] < 32 THEN Fail
    ELSE IF s[i] # 92 THEN ScanPlain(s, i, NextSpecial(s, i), acc)
    ELSE IF i + 1 > Len(s) THEN Fail
    ELSE IF s[i + 1] \in {34, 92, 47, 98, 102, 110, 114, 116}
    THEN ScanString(s, i + 2, Append(acc, Unescape(s[i + 1])))
    ELSE IF /\ s[i + 1] = 117
            /\ i + 5 <= Len(s)
            /\ \A k \in 2..5 : HexValue(s[i + k]) < 16
    THEN ScanString(s, i + 6, Append(acc,
             HexValue(s[i + 2]) * 4096 + HexValue(s[i + 3]) * 256
             + HexValue(s[i + 4]) * 16 + HexValue(s[i + 5])))
    ELSE Fail

\* NUMBER_RE: -?(0|[1-9][0-9]*)(\.[0-9]+)?([eE][-+]?[0-9]+)?
\* j is the index after the part matched so far.
NumberExpDigits(s, i, j, k) ==
    IF k <= Len(s) /\ IsDigit(s[k])
    THEN Ok(JNum(SubSeq(s, i, ScanDigits(s, k + 1) - 1)), ScanDigits(s, k + 1))
    ELSE Ok(JNum(SubSeq(s, i, j - 1)), j)

NumberExp(s, i, j) ==
    IF j <= Len(s) /\ s[j] \in {101, 69}
    THEN NumberExpDigits(s, i, j,
             IF j + 1 <= Len(s) /\ s[j + 1] \in {43, 45} THEN j + 2 ELSE j + 1)
    ELSE Ok(JNum(SubSeq(s, i, j - 1)), j)

NumberFrac(s, i, j) ==
    IF At(s, j, 46) /\ j + 1 <= Len(s) /\ IsDigit(s[j + 1])
    THEN NumberExp(s, i, ScanDigits(s, j + 2))
    ELSE NumberExp(s, i, j)

NumberInt(s, i, j) ==
    IF At(s, j, 48) THEN NumberFrac(s, i, j + 1)
    ELSE IF j <= Len(s) /\ IsDigit(s[j]) THEN NumberFrac(s, i, ScanDigits(s, j))
    ELSE Fail

ScanNumber(s, i) == NumberInt(s, i, IF At(s, i, 45) THEN i + 1 ELSE i)

LIT_NULL == <<110, 117, 108, 108>>
LIT_TRUE == <<116, 114, 117, 101>>
LIT_FALSE == <<102, 97, 108, 115, 101>>
LIT_NAN == <<78, 97, 78>>
LIT_INFINITY == <<73, 110, 102, 105, 110, 105, 116, 121>>

RECURSIVE ScanValue(_, _)
RECURSIVE ScanArray(_, _, _)
RECURSIVE ArrayAfterValue(_, _, _)
RECURSIVE ArrayNext(_, _, _)
RECURSIVE ScanObject(_, _, _)
RECURSIVE ObjectAfterKey(_, _, _)
RECURSIVE ObjectAfterColon(_, _, _, _)
RECURSIVE ObjectAfterValue(_, _, _, _)
RECURSIVE ObjectNext(_, _, _)

\* JSONArray: i is at the next element, items holds the elements so far.
ScanArray(s, i, items) ==
    IF At(s, i, 93) /\ items = <<>> THEN Ok(JList(<<>>), i + 1)
    ELSE ArrayAfterValue(s, ScanValue(s, i), items)

ArrayAfterValue(s, r, items) ==
    IF ~r.ok THEN Fail ELSE ArrayNext(s, SkipWs(s, r.pos), Append(items, r.val))

ArrayNext(s, j, items) ==
    IF At(s, j, 93) THEN Ok(JList(items), j + 1)
    ELSE IF At(s, j, 44) THEN ScanArray(s, SkipWs(s, j + 1), items)
    ELSE Fail

\* JSONObject: i is at the next member, f holds the members so far (a
\* repeated key keeps its last value).
ScanObject(s, i, f) ==
    IF At(s, i, 125) /\ DOMAIN f = {} THEN Ok(EmptyDict, i + 1)
    ELSE IF ~At(s, i, 34) THEN Fail
    ELSE ObjectAfterKey(s, ScanString(s, i + 1, <<>>), f)

ObjectAfterKey(s, key, f) ==
    IF ~key.ok THEN Fail ELSE ObjectAfterColon(s, key.val.v, SkipWs(s, key.pos), f)

ObjectAfterColon(s, k, c, f) ==
    IF ~At(s, c, 58) THEN Fail
    ELSE ObjectAfterValue(s, k, ScanValue(s, SkipWs(s, c + 1)), f)

ObjectAfterValue(s, k, r, f) ==
    IF ~r.ok THEN Fail ELSE ObjectNext(s, SkipWs(s, r.pos), (k :> r.val) @@ f)

ObjectNext(s, j, g) ==
    IF At(s, j, 125) THEN Ok(JObj(g), j + 1)
    ELSE IF At(s, j, 44) THEN ScanObject(s, SkipWs(s, j + 1), g)
    ELSE Fail

\* scan_once: the value starting exactly at i.
ScanValue(s, i) ==
    IF i > Len(s) THEN Fail
    ELSE CASE s[i] = 34 -> ScanString(s, i + 1, <<>>)
           [] s[i] = 123 -> ScanObject(s, SkipWs(s, i + 1), <<>>)
           [] s[i] = 91 -> ScanArray(s, SkipWs(s, i + 1), <<>>)
           [] HasPrefix(s, i, LIT_NULL) -> Ok(JNull, i + 4)
           [] HasPrefix(s, i, LIT_TRUE) -> Ok(JBool(TRUE), i + 4)
           [] HasPrefix(s, i, LIT_FALSE) -> Ok(JBool(FALSE), i + 5)
           [] HasPrefix(s, i, LIT_NAN) -> Ok(JNum(LIT_NAN), i + 3)
           [] HasPrefix(s, i, LIT_INFINITY) -> Ok(JNum(LIT_INFINITY), i + 8)
           [] s[i] = 45 /\ HasPrefix(s, i + 1, LIT_INFINITY) ->
                Ok(JNum(SubSeq(s, i, i + 8)), i + 9)
           [] OTHER -> ScanNumber(s, i)

\* nothing but whitespace may follow the value
WholeText(text, r) ==
    IF r.ok /\ SkipWs(text, r.pos) = Len(text) + 1
    THEN Return(r.val)
    ELSE Raise("JSONDecodeError")

\* json.loads: one value between optional whitespace.
JsonLoads(text) == WholeText(text, ScanValue(text, SkipWs(text, 1)))

(***************************************************************************)
(* Configuration (lines 12-19).                                            *)
(***************************************************************************)
FAN_DURATION_SECONDS == "360s"

\* at most this many invocations are served in one behaviour
MaxInvocations == 2

(***************************************************************************)
(* Responses of the handler: (body, status).                               *)
(***************************************************************************)
Respond(body, status) == [status |-> status, body |-> body]
NoResponse == Respond(<<>>, 0)

\* Outcome of a stretch of the handler: it raised, it returned a response,
\* or it fell through with a value.
Raised(e) == [exc |-> e, response |-> NoResponse, val |-> JNull]
Returned(r) == [exc |-> "", response |-> r, val |-> JNull]
Continue(x) == [exc |-> "", response |-> NoResponse, val |-> x]
Stops(o) == o.exc # "" \/ o.response.status # 0

\* lines 142-145: every exception becomes a 500.
Caught(o) == IF o.exc # "" THEN Respond(<<"Internal Server Error">>, 500) ELSE o.response

\* lines 57-75: the envelope checks, yielding pubsub_message['data'].
ExtractMessageData(envelope) ==
    LET has_message    == PyContains(KEY_MESSAGE, envelope)
        pubsub_message == PyGetItem(envelope, KEY_MESSAGE)
        has_data       == PyContains(KEY_DATA, pubsub_message.val)
        message_data   == PyGetItem(pubsub_message.val, KEY_DATA)
    IN  IF ~PyTruthy(envelope)
        THEN Returned(Respond(<<"Bad Request: No JSON payload">>, 400))
        ELSE IF has_message.exc # "" THEN Raised(has_message.exc)
        ELSE IF ~has_message.val.v
        THEN Returned(Respond(<<"Bad Request: No message field">>, 400))
        ELSE IF pubsub_message.exc # "" THEN Raised(pubsub_message.exc)
        ELSE IF has_data.exc # "" THEN Raised(has_data.exc)
        ELSE IF ~has_data.val.v
        THEN Returned(Respond(<<"Bad Request: No data field">>, 400))
        ELSE IF message_data.exc # "" THEN Raised(message_data.exc)
        ELSE Continue(message_data.val)

\* line 78: .decode("utf-8") of what b64decode returned, if it returned
DecodeUtf8(b) == IF b.exc = "" THEN Utf8Decode(b.val, 1, <<>>) ELSE b

\* lines 79-82: the literal text when either step raised
OrLiteral(u, message_data) == IF u.exc = "" THEN u.val ELSE PyStr(message_data)

\* lines 76-82: base64 first, the literal text when that raises.
DecodeData(message_data) == OrLiteral(DecodeUtf8(B64Decode(message_data)), message_data)

HasHvacTraitUnchecked(traits) == Return(JBool(TRUE))

\* line 102: "sdm.devices.traits.ThermostatHvac" in traits
HasHvacTrait(traits) == PyContains(TRAIT_HVAC, traits)

CurrentStatusIndexed(hvac_update) == PyGetItem(hvac_update, KEY_STATUS)

\* line 114: hvac_update.get("status")
CurrentStatus(hvac_update) == PyDictGet(hvac_update, KEY_STATUS)

\* lines 95-115 and 138-140: Continue when the fan is to be started.
TraitFilter(data) ==
    LET has_ru         == PyContains(KEY_RESOURCE_UPDATE, data)
        resourceUpdate == PyGetItem(data, KEY_RESOURCE_UPDATE)
        traits         == PyGetItem(resourceUpdate.val, KEY_TRAITS)
        has_hvac       == HasHvacTrait(traits.val)
        has_fan        == PyContains(TRAIT_FAN, traits.val)
        hvac_update    == PyGetItem(traits.val, TRAIT_HVAC)
        current_status == CurrentStatus(hvac_update.val)
    IN  IF has_ru.exc # "" THEN Raised(has_ru.exc)
        ELSE IF ~has_ru.val.v THEN Returned(Respond(<<"OK: Event ignored">>, 204))
        ELSE IF resourceUpdate.exc # "" THEN Raised(resourceUpdate.exc)
        ELSE IF traits.exc # "" THEN Raised(traits.exc)
        ELSE IF has_hvac.exc # "" THEN Raised(has_hvac.exc)
        ELSE IF ~has_hvac.val.v THEN Returned(Respond(<<"OK: Event ignored">>, 204))
        ELSE IF has_fan.exc # "" THEN Raised(has_fan.exc)
        ELSE IF has_fan.val.v /\ ~has_hvac.val.v
        THEN Returned(Respond(<<"OK: Event ignored">>, 204))
        ELSE IF hvac_update.exc # "" THEN Raised(hvac_update.exc)
        ELSE IF current_status.exc # "" THEN Raised(current_status.exc)
        ELSE IF current_status.val = JStr(STATUS_OFF) THEN Continue(current_status.val)
        ELSE Returned(Respond(<<"OK: Condition not met">>, 204))

Unknown == [known |-> FALSE, val |-> JNull]
Known(x) == [known |-> TRUE, val |-> x]

\* lines 85-90 and on: a parse error is a 400, a parsed event is filtered.
Judge(decoded, parsed) ==
    IF parsed.exc # ""
    THEN [decoded_data |-> Known(JStr(decoded)), data |-> Unknown,
          outcome |-> Returned(Respond(<<"Bad Request: Invalid JSON">>, 400))]
    ELSE [decoded_data |-> Known(JStr(decoded)), data |-> Known(parsed.val),
          outcome |-> TraitFilter(parsed.val)]

\* line 86: json.loads(decoded_data)
Parse(decoded) == Judge(decoded, JsonLoads(decoded))

\* lines 74-86, reached when the envelope checks let the request through
AfterEnvelope(m) ==
    IF Stops(m)
    THEN [decoded_data |-> Unknown, data |-> Unknown, outcome |-> m]
    ELSE Parse(DecodeData(m.val))

\* lines 55-115: the handler up to its first outbound call.
Inspect(envelope) == AfterEnvelope(ExtractMessageData(envelope))

(***************************************************************************)
(* Collaborators.                                                          *)
(***************************************************************************)
get_secret_swallowing(outcome) == Return(JStr(<<>>))

\* lines 23-28: the secret's text, or whatever access_secret_version raises.
get_secret(outcome) ==
    IF outcome = "ok" THEN Return(JStr(<<115>>)) ELSE Raise("GoogleAPICallError")

SecretOutcomes == {"ok", "error"}

\* What requests.post gives back: a response, or a transport exception.
HttpStatuses == {200, 204, 304, 401, 500}
Bodies == {BODY_TOKEN, BODY_NO_TOKEN, BODY_EMPTY_OBJ, BODY_LIST, BODY_TEXT, BODY_EMPTY}
HttpOutcomes ==
    {[answered |-> TRUE, status |-> s, text |-> b] : s \in HttpStatuses, b \in Bodies}
    \cup {[answered |-> FALSE, status |-> 0, text |-> <<>>]}

\* response.raise_for_status(): HTTPError for 4xx and 5xx.
RaiseForStatus(r) == r.status >= 400 /\ r.status < 600

\* line 46: response.json()["access_token"]
TokenOf(body) ==
    IF body.exc # "" THEN Raise(body.exc) ELSE PyGetItem(body.val, KEY_ACCESS_TOKEN)

\* lines 36-46: the access token out of the token endpoint's answer.
AccessToken(r) ==
    IF ~r.answered THEN Raise("ConnectionError")
    ELSE IF RaiseForStatus(r) THEN Raise("HTTPError")
    ELSE TokenOf(JsonLoads(r.text))

\* lines 134-137: the handler's result from the command endpoint's answer.
CommandResult(r) ==
    IF ~r.answered THEN Raised("ConnectionError")
    ELSE IF RaiseForStatus(r) THEN Raised("HTTPError")
    ELSE IF JsonLoads(r.text).exc # "" THEN Raised("JSONDecodeError")
    ELSE Returned(Respond(
             <<"OK: Fan activated for ", FAN_DURATION_SECONDS, " after cycle">>, 200))

(***************************************************************************)
(* State.                                                                  *)
(***************************************************************************)
VARIABLES
    pc,            \* where the invocation stands
    envelope,      \* request.get_json(silent=True); None is JNull
    decoded_data,  \* line 78/82, once computed
    data,          \* line 86, once parsed
    calls,         \* outbound calls of this invocation, in order
    access_token,  \* line 121
    response,      \* what the handler returned
    served         \* invocations completed

vars == <<pc, envelope, decoded_data, data, calls, access_token, response, served>>

Payloads64 ==
    {B64_OFF, B64_HEATING, B64_COOLING, B64_NO_STATUS, B64_STATUS_NULL, B64_FAN_ONLY,
     B64_FAN_AND_OFF, B64_FAN_AND_HEATING, B64_NO_TRAIT, B64_HVAC_NULL,
     B64_RU_NO_TRAITS, B64_NO_RU, B64_EMPTY_OBJ, B64_LIST, B64_STR, B64_STR_RU,
     B64_NUM, B64_NULL, B64_TRUE, B64_NOT_JSON, B64_B64_LOOKALIKE,
     B64_BAD_UTF8, B64_UNPADDED}
Literals == {P_OFF, P_HEATING, P_FAN_ONLY, P_EMPTY_OBJ, P_NUM, P_NULL, P_NOT_JSON,
             P_B64_LOOKALIKE}

\* values of message.data
DataValues ==
    {JStr(s) : s \in Payloads64 \cup Literals}
    \cup {JNum(P_NUM), JNull, JBool(TRUE), EmptyDict}

\* values request.get_json(silent=True) can return
Envelopes ==
    {Dict1(KEY_MESSAGE, Dict1(KEY_DATA, d)) : d \in DataValues}
    \cup {JNull, EmptyDict, JList(<<>>), JNum(P_NUM), JBool(TRUE), JStr(P_NOT_JSON),
          JList(<<JStr(KEY_MESSAGE)>>),
          Dict1(KEY_DATA, JStr(B64_OFF)),
          Dict1(KEY_MESSAGE, EmptyDict),
          Dict1(KEY_MESSAGE, Dict1(KEY_STATUS, JStr(STATUS_OFF))),
          Dict1(KEY_MESSAGE, JNull),
          Dict1(KEY_MESSAGE, JNum(P_NUM)),
          Dict1(KEY_MESSAGE, JStr(KEY_DATA))}

Init ==
    /\ pc = "idle"
    /\ envelope = JNull
    /\ decoded_data = Unknown
    /\ data = Unknown
    /\ calls = <<>>
    /\ access_token = JNull
    /\ response = NoResponse
    /\ served = 0

\* The state after the handler judged the request env as i.
Judged(env, i) ==
    /\ envelope' = env
    /\ decoded_data' = i.decoded_data
    /\ data' = i.data
    /\ calls' = <<>>
    /\ access_token' = JNull
    /\ IF Stops(i.outcome)
       THEN pc' = "done" /\ response' = Caught(i.outcome)
       ELSE pc' = "client_id" /\ response' = NoResponse
    /\ UNCHANGED served

\* lines 55-115: a request arrives and is judged.
Receive(env) ==
    /\ pc = "idle"
    /\ served < MaxInvocations
    /\ Judged(env, Inspect(env))

\* lines 32-34 and 122: one get_secret call.
LookupSecret(at, secret_id, next) ==
    \E outcome \in SecretOutcomes :
        /\ pc = at
        /\ calls' = Append(calls, [op |-> "get_secret", name |-> secret_id,
                                   ok |-> outcome = "ok", status |-> 0, text |-> <<>>])
        /\ IF get_secret(outcome).exc # ""
           THEN pc' = "done" /\ response' = Caught(Raised(get_secret(outcome).exc))
           ELSE pc' = next /\ UNCHANGED response
        /\ UNCHANGED <<envelope, decoded_data, data, access_token, served>>

\* line 121: the token is kept, or the exception ends the invocation.
TokenReturned(t) ==
    IF t.exc # ""
    THEN /\ pc' = "done"
         /\ response' = Caught(Raised(t.exc))
         /\ UNCHANGED access_token
    ELSE /\ pc' = "project_id"
         /\ access_token' = t.val
         /\ UNCHANGED response

\* lines 36-46: the token POST.
PostToken ==
    \E r \in HttpOutcomes :
        /\ pc = "token"
        /\ calls' = Append(calls, [op |-> "post_token", name |-> "oauth2/v4/token",
                                   ok |-> r.answered, status |-> r.status, text |-> r.text])
        /\ TokenReturned(AccessToken(r))
        /\ UNCHANGED <<envelope, decoded_data, data, served>>

\* lines 134-137: the command POST.
PostCommand ==
    \E r \in HttpOutcomes :
        /\ pc = "command"
        /\ calls' = Append(calls, [op |-> "post_command", name |-> "executeCommand",
                                   ok |-> r.answered, status |-> r.status, text |-> r.text])
        /\ pc' = "done"
        /\ response' = Caught(CommandResult(r))
        /\ UNCHANGED <<envelope, decoded_data, data, access_token, served>>

\* The response is sent; the next request starts from nothing.
Finish ==
    /\ pc = "done"
    /\ pc' = "idle"
    /\ served' = served + 1
    /\ envelope' = JNull
    /\ decoded_data' = Unknown
    /\ data' = Unknown
    /\ calls' = <<>>
    /\ access_token' = JNull
    /\ response' = NoResponse

Next ==
    \/ \E env \in Envelopes : Receive(env)
    \/ LookupSecret("client_id", "nest-client-id", "client_secret")
    \/ LookupSecret("client_secret", "nest-client-secret", "refresh_token")
    \/ LookupSecret("refresh_token", "nest-refresh-token", "token")
    \/ PostToken
    \/ LookupSecret("project_id", "nest-project-id", "command")
    \/ PostCommand
    \/ Finish

Spec == Init /\ [][Next]_vars

(***************************************************************************)
(* Vocabulary of the properties: what the request carried and which calls  *)
(* were made, read off the state.                                          *)
(***************************************************************************)
CallsOf(op) == {i \in 1..Len(calls) : calls[i].op = op}
LookupsOf(secret_id) ==
    {i \in 1..Len(calls) : calls[i].op = "get_secret" /\ calls[i].name = secret_id}
Is2xx(status) == status \in 200..299

\* the decoded payload is a JSON object with a resourceUpdate key
HasResourceUpdate ==
    data.known /\ data.val.t = "obj" /\ KEY_RESOURCE_UPDATE \in DOMAIN data.val.v
\* ... whose resourceUpdate carries a traits mapping
HasTraits ==
    /\ HasResourceUpdate
    /\ data.val.v[KEY_RESOURCE_UPDATE].t = "obj"
    /\ KEY_TRAITS \in DOMAIN data.val.v[KEY_RESOURCE_UPDATE].v
    /\ data.val.v[KEY_RESOURCE_UPDATE].v[KEY_TRAITS].t = "obj"
Traits == data.val.v[KEY_RESOURCE_UPDATE].v[KEY_TRAITS].v
\* ... with a ThermostatHvac entry that is a trait state (an object)
HasHvacState ==
    HasTraits /\ TRAIT_HVAC \in DOMAIN Traits /\ Traits[TRAIT_HVAC].t = "obj"
HvacState == Traits[TRAIT_HVAC].v
StatusIsOff ==
    /\ HasHvacState
    /\ KEY_STATUS \in DOMAIN HvacState
    /\ HvacState[KEY_STATUS].t = "str"
    /\ HvacState[KEY_STATUS].v = STATUS_OFF

\* the token endpoint answered 2xx with a JSON object holding access_token
TokenGranted(c) ==
    /\ c.ok
    /\ Is2xx(c.status)
    /\ JsonLoads(c.text).exc = ""
    /\ JsonLoads(c.text).val.t = "obj"
    /\ KEY_ACCESS_TOKEN \in DOMAIN JsonLoads(c.text).val.v

CallSucceeded(c) ==
    CASE c.op = "get_secret"   -> c.ok
      [] c.op = "post_token"   -> TokenGranted(c)
      [] c.op = "post_command" -> c.ok /\ Is2xx(c.status)

\* the one order in which process_nest_event makes its calls
CallOrder ==
    << <<"get_secret", "nest-client-id">>, <<"get_secret", "nest-client-secret">>,
       <<"get_secret", "nest-refresh-token">>, <<"post_token", "oauth2/v4/token">>,
       <<"get_secret", "nest-project-id">>, <<"post_command", "executeCommand">> >>

FanActivated ==
    Respond(<<"OK: Fan activated for ", FAN_DURATION_SECONDS, " after cycle">>, 200)

\* RFC 4648 base64 text: alphabet only, whole quads, '=' only as the last
\* one or two characters.
IsBase64(s) ==
    /\ Len(s) % 4 = 0
    /\ \A i \in 1..Len(s) :
          \/ B64Value(s[i]) < 64
          \/ /\ s[i] = 61
             /\ i >= Len(s) - 1
             /\ \A j \in i..Len(s) : s[j] = 61

\* message.data of the request, once the envelope checks passed
MessageData == envelope.v[KEY_MESSAGE].v[KEY_DATA]

(***************************************************************************)
(* Properties.                                                             *)
(***************************************************************************)

\* C1: an invocation whose event has ThermostatHvac status "OFF" and whose
\* calls all succeed has made each of the four secret lookups, the token
\* refresh and the command call exactly once, and returns 200.
\* Fails: a 2xx command answer whose body is not JSON ends in 500 (see C6).
C1_TriggeredRunReturns200 ==
    (pc = "done" /\ StatusIsOff /\ \A i \in 1..Len(calls) : CallSucceeded(calls[i]))
    => /\ \A secret_id \in {"nest-client-id", "nest-client-secret",
                            "nest-refresh-token", "nest-project-id"} :
              Cardinality(LookupsOf(secret_id)) = 1
       /\ Cardinality(CallsOf("post_token")) = 1
       /\ Cardinality(CallsOf("post_command")) = 1
       /\ response.status = 200

\* C2: a resource update whose traits mapping has no ThermostatHvac entry is
\* answered 204 without any outbound call, with or without a Fan trait.
C2_NoHvacTraitIgnored ==
    (HasTraits /\ TRAIT_HVAC \notin DOMAIN Traits)
    => pc = "done" /\ response.status = 204 /\ calls = <<>>

\* C2 witness: a Fan-only update was answered 204.
C2_FanOnlyIgnored ==
    /\ pc = "done"
    /\ HasTraits
    /\ DOMAIN Traits = {TRAIT_FAN}
    /\ response.status = 204

\* C3: a ThermostatHvac trait state whose status is not "OFF" (another value,
\* null, or no status) is answered 204 and no command call is made.
C3_StatusNotOffNoCommand ==
    (HasHvacState /\ ~StatusIsOff)
    => pc = "done" /\ response.status = 204 /\ CallsOf("post_command") = {}

\* C3 witness: a ThermostatHvac state without a status was answered 204.
C3_NoStatusIgnored ==
    /\ pc = "done"
    /\ HasHvacState
    /\ KEY_STATUS \notin DOMAIN HvacState
    /\ response.status = 204

\* C4: a failed secret lookup is the last outbound call of its invocation,
\* which returns 500.
C4_FailedLookupEndsInvocation ==
    \A i \in 1..Len(calls) :
        (calls[i].op = "get_secret" /\ ~calls[i].ok)
        => i = Len(calls) /\ pc = "done" /\ response.status = 500

\* C4 witness: the project-id lookup failed after a granted token; no
\* command followed and the response is 500.
C4_ProjectIdLookupFailed ==
    /\ pc = "done"
    /\ Len(calls) = 5
    /\ calls[5].op = "get_secret" /\ calls[5].name = "nest-project-id" /\ ~calls[5].ok
    /\ \A i \in 1..4 : CallSucceeded(calls[i])
    /\ response.status = 500

\* C5: when the token endpoint answers non-2xx, or 2xx without access_token,
\* the invocation returns 500 and the command endpoint is never called.
\* Fails: raise_for_status lets a 3xx answer through, and a 3xx body with
\* an access_token is used.
C5_FailedTokenRefreshStops ==
    \A i \in 1..Len(calls) :
        (calls[i].op = "post_token" /\ calls[i].ok /\ ~TokenGranted(calls[i]))
        => /\ CallsOf("post_command") = {}
           /\ pc = "done" => response.status = 500

\* C6: once the command call was answered, the response follows its HTTP
\* status alone: 2xx gives 200 with the confirmation naming the duration,
\* anything else gives 500.
\* Fails: a 2xx answer whose body is not JSON gives 500 (line 136), and a
\* 3xx answer with a JSON body gives 200.
C6_ResponseFollowsCommandStatus ==
    \A i \in 1..Len(calls) :
        (calls[i].op = "post_command" /\ calls[i].ok)
        => IF Is2xx(calls[i].status)
           THEN response = FanActivated
           ELSE response.status = 500

\* C7: a payload that parses as JSON and has no resourceUpdate key (object
\* or not) is answered 204 without any outbound call.
\* Fails: "resourceUpdate" not in data raises for a number, true or null.
C7_NoResourceUpdateIgnored ==
    (data.known /\ ~HasResourceUpdate)
    => pc = "done" /\ response.status = 204 /\ calls = <<>>

\* C8: message.data that is not valid base64 is the text handed to JSON
\* parsing.
\* Fails: b64decode skips characters outside the alphabet, so text such as
\* {} decodes (to the empty string) instead of raising.
C8_NotBase64TakenLiterally ==
    (decoded_data.known /\ MessageData.t = "str" /\ ~IsBase64(MessageData.v))
    => decoded_data.val = MessageData

\* C9: a request whose body is not a JSON object, or has no message, or whose
\* message has no data, is answered 400 without any outbound call.
\* Fails: a body such as 5 or true passes "not envelope" and raises at
\* 'message' not in envelope.
C9_BadEnvelopeIs400 ==
    (/\ pc = "done"
     /\ \/ envelope.t # "obj"
        \/ KEY_MESSAGE \notin DOMAIN envelope.v
        \/ /\ envelope.v[KEY_MESSAGE].t = "obj"
           /\ KEY_DATA \notin DOMAIN envelope.v[KEY_MESSAGE].v)
    => response.status = 400 /\ calls = <<>>

\* C10: the calls of an invocation are a prefix of the one fixed order, the
\* command is called only after a token refresh answered 2xx with an
\* access_token and a successful project-id lookup, and 200 is returned only
\* after the command call returned.
\* Fails: the command is called after a 3xx token answer (see C5).
C10_CallsInFixedOrder ==
    /\ Len(calls) <= Len(CallOrder)
    /\ \A i \in 1..Len(calls) : <<calls[i].op, calls[i].name>> = CallOrder[i]
    /\ \A i \in CallsOf("post_command") : TokenGranted(calls[4]) /\ calls[5].ok
    /\ response.status = 200
       => Len(calls) = 6 /\ calls[6].op = "post_command" /\ calls[6].ok

=============================================================================
